---- MODULE Spec2Model ----
(***************************************************************************)
(* Model of Week4/exercise_3_RNNs/FlightPassengerPredictions.ipynb:        *)
(* load a univariate series, min-max normalise it, split it into a train   *)
(* and a test partition, build sliding-window (window, label) pairs, train *)
(* an LSTM regressor for a fixed number of iterations, invert the          *)
(* normalisation of the predictions, score them and lay them out for the   *)
(* plot.                                                                   *)
(*                                                                         *)
(* Numbers are exact rationals <<numerator, denominator>>; the rounding of *)
(* float32/float64 arithmetic is not represented.                          *)
(*                                                                         *)
(* What torch computes inside Net and inside Adam (the gates of the LSTM,  *)
(* the derivatives, the moment estimates) is floating-point library code   *)
(* whose values are not computed here.  The weights are named by how many  *)
(* updates they have had and the gradient the last update was computed     *)
(* from; the output of the net on a window is the term <<"net", weights,   *)
(* window>>, which stands for the float the library returns, whatever it   *)
(* is.  Arithmetic on such a term builds the term of the result, as        *)
(* math_sqrt does for a root.  Whether the weights have diverged is not    *)
(* computed either: every update may leave outputs that are finite,        *)
(* infinite or not a number, and the weights record which.                 *)
(***************************************************************************)
EXTENDS Integers, Sequences, FiniteSets, TLC

\* ------------------------------------------------------------------------
\* Bounds of the model
\* ------------------------------------------------------------------------
MaxLen == 5

MaxRamp == 10

MaxLookBack == 3

MaxN == 33

MaxLiveN == 33

\* ------------------------------------------------------------------------
\* Exact rational arithmetic
\* ------------------------------------------------------------------------
Abs(n) == IF n < 0 THEN -n ELSE n

\* the one element of a singleton set
The(S) == CHOOSE v \in S : TRUE

\* the operators below bind each operand once, so that a nested expression
\* is evaluated once per term
RECURSIVE GCD(_, _)
GCD(a, b) == The({IF y = 0 THEN x ELSE GCD(y, x % y) : x \in {a}, y \in {b}})

\* the fraction n/d in lowest terms with a positive denominator
R(n, d) ==
    The({<<(s * x) \div g, (s * y) \div g>> :
            x \in {n}, y \in {d}, s \in {IF d < 0 THEN -1 ELSE 1},
            g \in {GCD(Abs(n), Abs(d))}})

\* a number is a pair; anything longer is the term of a value that is not
\* computed: <<"net", weights, window>> or <<operation, left, right>>
IsNum(x) == Len(x) = 2

BothNum(x, y) == IsNum(x) /\ IsNum(y)

\* sums and differences are formed over the least common denominator
RAddOver(a, b, g) ==
    R(a[1] * (b[2] \div g) + b[1] * (a[2] \div g), (a[2] \div g) * b[2])

RAdd(x, y) ==
    The({IF BothNum(a, b)
         THEN The({RAddOver(a, b, g) : g \in {GCD(a[2], b[2])}})
         ELSE <<"add", a, b>> : a \in {x}, b \in {y}})

RSub(x, y) ==
    The({IF BothNum(a, b) THEN RAdd(a, <<-b[1], b[2]>>) ELSE <<"sub", a, b>> :
            a \in {x}, b \in {y}})

RMul(x, y) ==
    The({IF BothNum(a, b) THEN R(a[1] * b[1], a[2] * b[2]) ELSE <<"mul", a, b>> :
            a \in {x}, b \in {y}})

RDiv(x, y) ==
    The({IF BothNum(a, b) THEN R(a[1] * b[2], a[2] * b[1]) ELSE <<"div", a, b>> :
            a \in {x}, b \in {y}})

RLess(x, y) == x[1] * y[2] < y[1] * x[2]

RZero == <<0, 1>>

ROne == <<1, 1>>

\* dataset.astype('float32'): the integer counts of the file become numbers
astype_float(values) == [i \in 1..Len(values) |-> <<values[i], 1>>]

\* ------------------------------------------------------------------------
\* numpy indexing
\* ------------------------------------------------------------------------
MinOf(a, b) == IF a < b THEN a ELSE b

MaxOf(a, b) == IF a > b THEN a ELSE b

\* s[a:b] for 0 <= a, 0 <= b: the slice is clipped to the array
PySlice(s, a, b) == SubSeq(s, a + 1, MinOf(b, Len(s)))

\* range(n): empty when n <= 0
PyRange(n) == 0..(n - 1)

\* ------------------------------------------------------------------------
\* create_dataset
\* ------------------------------------------------------------------------
\* a range one longer than the code's (an off-by-one slip)
window_count_one_more(dataset, look_back) == Len(dataset) - look_back

\* the argument of range(): len(dataset)-look_back-1
window_count(dataset, look_back) == Len(dataset) - look_back - 1

\* dataset[i:(i+look_back), 0]
window(dataset, i, look_back) == PySlice(dataset, i, i + look_back)

\* a label taken one step too late
label_one_late(dataset, i, look_back) == dataset[i + look_back + 2]

\* dataset[i + look_back, 0]
label(dataset, i, look_back) == dataset[i + look_back + 1]

\* for i in range(...): dataX.append(a); dataY.append(...) -- the iterations
\* lo .. hi-1 run in ascending order on the two lists built so far
RECURSIVE create_dataset_loop(_, _, _, _, _)
create_dataset_loop(dataset, look_back, lo, hi, lists) ==
    IF hi <= lo
    THEN lists
    ELSE IF hi = lo + 1
    THEN <<Append(lists[1], window(dataset, lo, look_back)),
           Append(lists[2], label(dataset, lo, look_back))>>
    ELSE The({create_dataset_loop(dataset, look_back, (lo + hi) \div 2, hi, done) :
                  done \in {create_dataset_loop(dataset, look_back, lo,
                                                 (lo + hi) \div 2, lists)}})

\* dataX, dataY = [], []; the loop; return np.array(dataX), np.array(dataY)
create_dataset(dataset, look_back) ==
    create_dataset_loop(dataset, look_back, 0,
                        window_count(dataset, look_back), <<<<>>, <<>>>>)

\* ------------------------------------------------------------------------
\* MinMaxScaler(feature_range=(0, 1))
\* ------------------------------------------------------------------------
RMin(x, y) == The({IF RLess(b, a) THEN b ELSE a : a \in {x}, b \in {y}})

RMax(x, y) == The({IF RLess(a, b) THEN b ELSE a : a \in {x}, b \in {y}})

\* np.min over a non-empty column
RECURSIVE RMinOver(_, _, _)
RMinOver(X, lo, hi) ==
    IF lo = hi THEN X[lo]
    ELSE The({RMin(RMinOver(X, lo, mid), RMinOver(X, mid + 1, hi)) :
                  mid \in {(lo + hi) \div 2}})

RMinSeq(X) == RMinOver(X, 1, Len(X))

\* np.max over a non-empty column
RECURSIVE RMaxOver(_, _, _)
RMaxOver(X, lo, hi) ==
    IF lo = hi THEN X[lo]
    ELSE The({RMax(RMaxOver(X, lo, mid), RMaxOver(X, mid + 1, hi)) :
                  mid \in {(lo + hi) \div 2}})

RMaxSeq(X) == RMaxOver(X, 1, Len(X))

Unfitted == [fitted |-> FALSE, data_min |-> RZero, data_max |-> RZero,
             scale |-> ROne, min |-> RZero]

\* a constant feature is scaled by 1 instead of by 1/0
handle_zeros_in_scale(range) == IF range = RZero THEN ROne ELSE range

\* a fit that leaves the last observation out of the statistics
scaler_fit_drop_last(X) ==
    LET Y == IF Len(X) > 1 THEN SubSeq(X, 1, Len(X) - 1) ELSE X
        lo == RMinSeq(Y)
        hi == RMaxSeq(Y)
        sc == RDiv(RSub(ROne, RZero), handle_zeros_in_scale(RSub(hi, lo)))
    IN  [fitted |-> TRUE, data_min |-> lo, data_max |-> hi,
         scale |-> sc, min |-> RSub(RZero, RMul(lo, sc))]

\* scaler.fit on a non-empty column
scaler_fit(X) ==
    LET lo == RMinSeq(X)
        hi == RMaxSeq(X)
        sc == RDiv(RSub(ROne, RZero), handle_zeros_in_scale(RSub(hi, lo)))
    IN  [fitted |-> TRUE, data_min |-> lo, data_max |-> hi,
         scale |-> sc, min |-> RSub(RZero, RMul(lo, sc))]

scaler_transform(sc, X) ==
    [i \in 1..Len(X) |-> RAdd(RMul(X[i], sc.scale), sc.min)]

\* an inverse with the sign of the offset slipped
inverse_transform_sign(sc, X) ==
    [i \in 1..Len(X) |-> RDiv(RAdd(X[i], sc.min), sc.scale)]

inverse_transform(sc, X) ==
    [i \in 1..Len(X) |-> RDiv(RSub(X[i], sc.min), sc.scale)]

\* ------------------------------------------------------------------------
\* State
\* ------------------------------------------------------------------------
VARIABLES
    call,             \* function called on its own: [fn, data, look_back]
    ret,              \* what that call has produced so far
    pc,               \* the statement the notebook run is at
    fault,            \* the exception that ended the run, or "none"
    dataframe,        \* the column read from the file
    dataset,          \* the series: raw after astype, normalised after the fit
    scaler,           \* MinMaxScaler state
    train_size, test_size, train, test,
    look_back,
    trainX, trainY, testX, testY,
    trainXShape, testXShape,
    params,           \* net: the weights
    grad,             \* net: accumulated .grad of the weights
    optSteps,         \* opt: number of steps Adam has applied
    exp_avg,          \* opt: Adam's running average of the gradients
    epoch,            \* iterations of the training loop completed
    graph,            \* the autograd graph of the last forward pass
    prediction, loss,
    trainPredict, testPredict, trainY_inv, testY_inv,
    trainScore, testScore,
    trainPredictPlot, testPredictPlot, baseline

dataVars == <<dataframe, dataset, scaler, train_size, test_size, train, test,
              look_back, trainX, trainY, testX, testY, trainXShape, testXShape>>

netVars == <<params, grad, optSteps, exp_avg, epoch, graph, prediction, loss>>

evalVars == <<trainPredict, testPredict, trainY_inv, testY_inv,
              trainScore, testScore, trainPredictPlot, testPredictPlot, baseline>>

vars == <<call, ret, pc, fault, dataVars, netVars, evalVars>>

None == "none"

NoCall == [fn |-> None, data |-> <<>>, look_back |-> 0, pred |-> <<>>]

NoRet == [stage |-> None, dataX |-> <<>>, dataY |-> <<>>, scaler |-> Unfitted,
          scaled |-> <<>>, inverted |-> <<>>, train_size |-> 0,
          testX |-> <<>>, testY |-> <<>>, shapeX |-> <<>>, shapeTestX |-> <<>>,
          predicted |-> <<>>, score |-> None, kind |-> None,
          trainPredict |-> <<>>, testPredict |-> <<>>,
          trainPredictPlot |-> <<>>, testPredictPlot |-> <<>>]

\* no gradient stored: the sum of the derivatives of no loss
NoGrad == <<>>

\* no network yet
NoParams == [updates |-> 0, from |-> NoGrad, kind |-> "finite"]

\* Adam before its first step
NoMoment == [steps |-> 0, last |-> NoGrad]

\* no forward pass yet
NoGraph == [updates |-> 0, pairs |-> 0]

\* every variable of the notebook before its first statement has run
Blank ==
    /\ fault = None
    /\ dataframe = <<>> /\ dataset = <<>> /\ scaler = Unfitted
    /\ train_size = 0 /\ test_size = 0 /\ train = <<>> /\ test = <<>>
    /\ look_back = 0
    /\ trainX = <<>> /\ trainY = <<>> /\ testX = <<>> /\ testY = <<>>
    /\ trainXShape = <<>> /\ testXShape = <<>>
    /\ params = NoParams /\ grad = NoGrad /\ optSteps = 0 /\ epoch = 0
    /\ exp_avg = NoMoment
    /\ graph = NoGraph /\ prediction = <<>> /\ loss = RZero
    /\ trainPredict = <<>> /\ testPredict = <<>>
    /\ trainY_inv = <<>> /\ testY_inv = <<>>
    /\ trainScore = None /\ testScore = None
    /\ trainPredictPlot = <<>> /\ testPredictPlot = <<>> /\ baseline = <<>>

\* ------------------------------------------------------------------------
\* The functions called on their own, on arguments drawn from bounded sets
\* ------------------------------------------------------------------------
Ramp(n) == [i \in 1..n |-> i]

SeriesValues == {1, 2}

WindowInputs ==
    UNION {[1..n -> SeriesValues] : n \in 0..MaxLen} \cup {Ramp(n) : n \in 0..MaxRamp}

ScalerValues == {100, 112, 400, 700}

MaxFit == 3

ScalerInputs == UNION {[1..n -> ScalerValues] : n \in 1..MaxFit}

MaxPrepN == 12

\* the passenger series has 12 x 12 = 144 monthly entries
SeriesLength == 144

\* look_back = 5
NotebookLookBack == 5

PrepareInputs == {Ramp(n) : n \in 0..MaxPrepN} \cup {Ramp(SeriesLength)}

PrepareLookBacks == (1..MaxLookBack) \cup {NotebookLookBack}

MaxPlotN == 36

PlotInputs == {Ramp(n) : n \in 1..MaxPlotN} \cup {Ramp(SeriesLength)}

FnInit ==
    /\ pc = "harness"
    /\ Blank
    /\ ret = NoRet
    /\ \/ \E s \in WindowInputs, L \in 1..MaxLookBack :
              call = [fn |-> "create_dataset", data |-> s, look_back |-> L,
                      pred |-> <<>>]
       \/ \E s \in ScalerInputs :
              call = [fn |-> "scaler", data |-> astype_float(s), look_back |-> 0,
                      pred |-> <<>>]
       \/ \E s \in PrepareInputs, L \in PrepareLookBacks :
              call = [fn |-> "prepare", data |-> s, look_back |-> L,
                      pred |-> <<>>]
       \/ \E s \in PlotInputs, L \in PrepareLookBacks :
              call = [fn |-> "plot", data |-> s, look_back |-> L,
                      pred |-> <<>>]
       \/ \E s \in ScalerInputs :
              \E p \in [1..Len(s) -> {s[i] : i \in 1..Len(s)}] :
                  call = [fn |-> "score", data |-> astype_float(s), look_back |-> 0,
                          pred |-> astype_float(p)]

CallCreateDataset ==
    /\ call.fn = "create_dataset" /\ ret.stage = None
    /\ LET r == create_dataset(call.data, call.look_back)
       IN  ret' = [ret EXCEPT !.stage = "returned", !.dataX = r[1], !.dataY = r[2]]
    /\ UNCHANGED <<call, pc, fault, dataVars, netVars, evalVars>>

CallFitTransform ==
    /\ call.fn \in {"scaler", "score"} /\ ret.stage = None
    /\ LET sc == scaler_fit(call.data)
       IN  ret' = [ret EXCEPT !.stage = "transformed", !.scaler = sc,
                              !.scaled = scaler_transform(sc, call.data)]
    /\ UNCHANGED <<call, pc, fault, dataVars, netVars, evalVars>>

CallInverseTransform ==
    /\ call.fn = "scaler" /\ ret.stage = "transformed"
    /\ ret' = [ret EXCEPT !.stage = "inverted",
                          !.inverted = inverse_transform(ret.scaler, ret.scaled)]
    /\ UNCHANGED <<call, pc, fault, dataVars, netVars, evalVars>>

\* ------------------------------------------------------------------------
\* The notebook, statement by statement
\* ------------------------------------------------------------------------
NumEpochs == 5000

SplitPercent == 67

InspectIndex == 15

At(l) == pc = l /\ fault = None

\* a split point rounded to the nearest integer instead of cut off
split_point_rounded(n) == ((n * SplitPercent) + 50) \div 100

\* int(len(dataset) * 0.67)
split_point(n) == (n * SplitPercent) \div 100

Constant(n) == [i \in 1..n |-> 5]

Alternating(n) == [i \in 1..n |-> 1 + (i % 2)]

\* the series a run may read: rising counts, whose windows all differ, and
\* constant and alternating counts, whose windows are of one or two kinds
RunInputsUpTo(maxN) ==
    UNION {{Ramp(n), Constant(n), Alternating(n)} : n \in 0..maxN}

RunInputs == RunInputsUpTo(MaxN)

\* the rising series of at most MaxLiveN values
LiveInputs == {Ramp(n) : n \in 0..MaxLiveN}

Init ==
    /\ pc = "load"
    /\ Blank
    /\ call = NoCall
    /\ ret = NoRet

\* dataframe = read_csv(...); dataset = dataframe.values.astype('float32')
LoadFrom(inputs) ==
    /\ At("load")
    /\ \E s \in inputs :
          /\ dataframe' = s
          /\ dataset' = astype_float(s)
    /\ pc' = "normalize"
    /\ UNCHANGED <<call, ret, fault, scaler, train_size, test_size, train, test,
                   look_back, trainX, trainY, testX, testY, trainXShape,
                   testXShape, netVars, evalVars>>

Load == LoadFrom(RunInputs)

LoadLive == LoadFrom(LiveInputs)

\* dataset = scaler.fit_transform(dataset); an empty column is rejected
Normalize ==
    /\ At("normalize")
    /\ IF Len(dataset) = 0
       THEN /\ fault' = "ValueError"
            /\ UNCHANGED <<pc, scaler, dataset>>
       ELSE /\ scaler' = scaler_fit(dataset)
            /\ dataset' = scaler_transform(scaler', dataset)
            /\ pc' = "split"
            /\ UNCHANGED fault
    /\ UNCHANGED <<call, ret, dataframe, train_size, test_size, train, test,
                   look_back, trainX, trainY, testX, testY, trainXShape,
                   testXShape, netVars, evalVars>>

\* dataset[0:train_size,:]
train_partition(ds, ts) == PySlice(ds, 0, ts)

\* a test partition that starts one element early
test_partition_early(ds, ts) == PySlice(ds, MaxOf(ts - 1, 0), Len(ds))

\* dataset[train_size:len(dataset),:]
test_partition(ds, ts) == PySlice(ds, ts, Len(ds))

Split ==
    /\ At("split")
    /\ train_size' = split_point(Len(dataset))
    /\ test_size' = Len(dataset) - train_size'
    /\ train' = train_partition(dataset, train_size')
    /\ test' = test_partition(dataset, train_size')
    /\ pc' = "window"
    /\ UNCHANGED <<call, ret, fault, dataframe, dataset, scaler, look_back,
                   trainX, trainY, testX, testY, trainXShape, testXShape,
                   netVars, evalVars>>

\* a shape that keeps two dimensions for an empty list
np_shape_2d(dataX, L) == <<Len(dataX), L>>

\* np.array(dataX).shape: an empty list gives a one-dimensional array
np_shape(dataX, L) == IF Len(dataX) = 0 THEN <<0>> ELSE <<Len(dataX), L>>

\* look_back = ...; trainX, trainY = create_dataset(train, look_back);
\* testX, testY = create_dataset(test, look_back)
Window ==
    /\ At("window")
    /\ look_back' = NotebookLookBack
    /\ LET tr == create_dataset(train, look_back')
           te == create_dataset(test, look_back')
       IN  /\ trainX' = tr[1] /\ trainY' = tr[2]
           /\ testX' = te[1] /\ testY' = te[2]
           /\ trainXShape' = np_shape(tr[1], look_back')
           /\ testXShape' = np_shape(te[1], look_back')
    /\ pc' = "reshape_train"
    /\ UNCHANGED <<call, ret, fault, dataframe, dataset, scaler, train_size,
                   test_size, train, test, netVars, evalVars>>

\* a reshape that leaves out the trailing feature axis
reshape_target_flat(shape) == <<shape[1], shape[2]>>

\* the shape (X.shape[0], X.shape[1], 1) that np.reshape is asked for
reshape_target(shape) == <<shape[1], shape[2], 1>>

\* trainX = np.reshape(trainX, (trainX.shape[0], trainX.shape[1], 1)):
\* shape[1] of a one-dimensional array is an IndexError
ReshapeTrain ==
    /\ At("reshape_train")
    /\ IF Len(trainXShape) < 2
       THEN fault' = "IndexError" /\ UNCHANGED <<pc, trainXShape>>
       ELSE /\ trainXShape' = reshape_target(trainXShape)
            /\ pc' = "reshape_test"
            /\ UNCHANGED fault
    /\ UNCHANGED <<call, ret, dataframe, dataset, scaler, train_size, test_size,
                   train, test, look_back, trainX, trainY, testX, testY,
                   testXShape, netVars, evalVars>>

\* testX = np.reshape(testX, (testX.shape[0], testX.shape[1], 1))
ReshapeTest ==
    /\ At("reshape_test")
    /\ IF Len(testXShape) < 2
       THEN fault' = "IndexError" /\ UNCHANGED <<pc, testXShape>>
       ELSE /\ testXShape' = reshape_target(testXShape)
            /\ pc' = "inspect"
            /\ UNCHANGED fault
    /\ UNCHANGED <<call, ret, dataframe, dataset, scaler, train_size, test_size,
                   train, test, look_back, trainX, trainY, testX, testY,
                   trainXShape, netVars, evalVars>>

\* the split, the two create_dataset calls and the two reshapes, applied to
\* a series on its own (the normalisation does not change any length)
CallPrepare ==
    /\ call.fn = "prepare" /\ ret.stage = None
    /\ LET ts == split_point(Len(call.data))
           tr == create_dataset(train_partition(call.data, ts), call.look_back)
           te == create_dataset(test_partition(call.data, ts), call.look_back)
           sx == np_shape(tr[1], call.look_back)
           st == np_shape(te[1], call.look_back)
       IN  ret' = [ret EXCEPT
                     !.stage = IF Len(sx) < 2 \/ Len(st) < 2
                               THEN "IndexError" ELSE "prepared",
                     !.train_size = ts,
                     !.dataX = tr[1], !.dataY = tr[2],
                     !.testX = te[1], !.testY = te[2],
                     !.shapeX = IF Len(sx) < 2 THEN sx ELSE reshape_target(sx),
                     !.shapeTestX = IF Len(sx) < 2 \/ Len(st) < 2
                                    THEN st ELSE reshape_target(st)]
    /\ UNCHANGED <<call, pc, fault, dataVars, netVars, evalVars>>

\* trainX.shape, trainY.shape; trainX[15, 0, :]; trainY[15]
Inspect ==
    /\ At("inspect")
    /\ IF InspectIndex >= trainXShape[1]
       THEN fault' = "IndexError" /\ UNCHANGED pc
       ELSE pc' = "to_tensor" /\ UNCHANGED fault
    /\ UNCHANGED <<call, ret, dataVars, netVars, evalVars>>

\* trainX = torch.tensor(trainX, dtype=torch.float), ... : same values
ToTensor ==
    /\ At("to_tensor")
    /\ pc' = "make_net"
    /\ UNCHANGED <<call, ret, fault, dataVars, netVars, evalVars>>

\* ------------------------------------------------------------------------
\* Net, the optimiser and the training loop
\* ------------------------------------------------------------------------
\* what the outputs of weights are: all finite, or not finite any more
Kinds == {"finite", "inf", "nan"}

\* the outputs the next weights may give: finite weights may stay finite or
\* overflow, and an update computed from values that are not finite leaves
\* values that are not finite
next_kinds(k) == IF k = "finite" THEN Kinds ELSE {"inf", "nan"}

\* self.linear(x) for one window w under the weights p
net_output(p, w) == <<"net", p, w>>

\* Net.forward on a batch: the output of the weights on each window, in the
\* order of the batch
forward(p, X) == [k \in 1..Len(X) |-> net_output(p, X[k])]

\* whether a value is finite, infinite or not a number: a quotient with
\* denominator 0 is not a number, an output is what its weights give, and
\* an operation on a value that is not finite gives one that is not finite
RECURSIVE kind_of(_)
kind_of(x) ==
    IF IsNum(x) THEN (IF x[2] = 0 THEN "nan" ELSE "finite")
    ELSE IF x[1] = "net" THEN x[2].kind
    ELSE The({IF "nan" \in {a, b} THEN "nan"
              ELSE IF "inf" \in {a, b} THEN "inf" ELSE "finite" :
                 a \in {kind_of(x[2])}, b \in {kind_of(x[3])}})

np_isnan(x) == kind_of(x) = "nan"

np_isinf(x) == kind_of(x) = "inf"

\* torch.sum of a column
RECURSIVE RSumTo(_, _)
RSumTo(s, n) == IF n = 0 THEN RZero ELSE RAdd(RSumTo(s, n - 1), s[n])

torch_sum(column) == The({RSumTo(s, Len(s)) : s \in {column}})

\* torch.sum((prediction.flatten() - trainY.flatten())**2)
sse(pred, Y) ==
    torch_sum([k \in 1..Len(pred) |->
                  RMul(RSub(pred[k], Y[k]), RSub(pred[k], Y[k]))])

\* the graph autograd records for a forward pass: which weights computed it
\* (those that have had p.updates updates) on how many pairs
graph_of(p, X) == [updates |-> p.updates, pairs |-> Len(X)]

\* .grad += the derivative of the loss of graph d: the stored gradient is
\* the sum of the derivatives of the losses listed
accumulate(g, d) == Append(g, d)

\* the weights Adam makes of the weights p with the gradient g; k is the
\* kind of the outputs they give
adam_update(p, g, k) == [updates |-> p.updates + 1, from |-> g, kind |-> k]

\* Adam's running average after one more gradient
adam_exp_avg(m, g) == [steps |-> m.steps + 1, last |-> g]

\* net = Net(): the initial weights, a finite random draw that no update
\* has touched
MakeNet ==
    /\ At("make_net")
    /\ params' = [updates |-> 0, from |-> NoGrad, kind |-> "finite"]
    /\ grad' = NoGrad
    /\ pc' = "make_opt"
    /\ UNCHANGED <<call, ret, fault, dataVars, optSteps, exp_avg, epoch,
                   graph, prediction, loss, evalVars>>

\* opt = torch.optim.Adam(net.parameters(), lr=5e-3); range(5000)
MakeOpt ==
    /\ At("make_opt")
    /\ optSteps' = 0
    /\ exp_avg' = NoMoment
    /\ epoch' = 0
    /\ pc' = "loop"
    /\ UNCHANGED <<call, ret, fault, dataVars, params, grad, graph, prediction, loss,
                   evalVars>>

\* a loop that also stops once the loss is not finite any more
loop_continues_while_finite(e) ==
    e \in PyRange(NumEpochs) /\ (e = 0 \/ kind_of(loss) = "finite")

\* for epoch in range(5000): whether the range yields another epoch
loop_continues(e) == e \in PyRange(NumEpochs)

\* prediction = net(trainX)
Forward ==
    /\ At("loop")
    /\ loop_continues(epoch)
    /\ prediction' = forward(params, trainX)
    /\ graph' = graph_of(params, trainX)
    /\ pc' = "loss"
    /\ UNCHANGED <<call, ret, fault, dataVars, params, grad, optSteps, exp_avg,
                   epoch, loss, evalVars>>

\* a loss whose residuals are computed in place, in the labels
Loss_in_place ==
    /\ At("loss")
    /\ loss' = sse(prediction, trainY)
    /\ trainY' = [k \in 1..Len(trainY) |-> RSub(prediction[k], trainY[k])]
    /\ pc' = "backward"
    /\ UNCHANGED <<call, ret, fault, dataframe, dataset, scaler, train_size,
                   test_size, train, test, look_back, trainX, testX, testY,
                   trainXShape, testXShape, params, grad, optSteps, exp_avg,
                   epoch, graph, prediction, evalVars>>

\* loss = torch.sum(...); progress_bar.set_description(...)
Loss ==
    /\ At("loss")
    /\ loss' = sse(prediction, trainY)
    /\ pc' = "backward"
    /\ UNCHANGED <<call, ret, fault, dataVars, params, grad, optSteps, exp_avg,
                   epoch, graph, prediction, evalVars>>

\* loss.backward(): gradients are added to the ones already stored
Backward ==
    /\ At("backward")
    /\ grad' = accumulate(grad, graph)
    /\ pc' = "step"
    /\ UNCHANGED <<call, ret, fault, dataVars, params, optSteps, exp_avg, epoch,
                   graph, prediction, loss, evalVars>>

\* an iteration whose opt.step() is left out
Step_left_out ==
    /\ At("step")
    /\ pc' = "zero_grad"
    /\ UNCHANGED <<call, ret, fault, dataVars, params, optSteps, exp_avg, grad,
                   epoch, graph, prediction, loss, evalVars>>

\* opt.step()
Step ==
    /\ At("step")
    /\ \E k \in next_kinds(params.kind) : params' = adam_update(params, grad, k)
    /\ exp_avg' = adam_exp_avg(exp_avg, grad)
    /\ optSteps' = optSteps + 1
    /\ pc' = "zero_grad"
    /\ UNCHANGED <<call, ret, fault, dataVars, grad, epoch, graph, prediction, loss,
                   evalVars>>

\* an iteration whose opt.zero_grad() is left out
ZeroGrad_left_out ==
    /\ At("zero_grad")
    /\ epoch' = epoch + 1
    /\ pc' = "loop"
    /\ UNCHANGED <<call, ret, fault, dataVars, params, grad, optSteps, exp_avg,
                   graph, prediction, loss, evalVars>>

\* opt.zero_grad(); the iteration is complete
ZeroGrad ==
    /\ At("zero_grad")
    /\ grad' = NoGrad
    /\ epoch' = epoch + 1
    /\ pc' = "loop"
    /\ UNCHANGED <<call, ret, fault, dataVars, params, optSteps, exp_avg,
                   graph, prediction, loss, evalVars>>

\* the range is exhausted: the loop ends
ExitLoop ==
    /\ At("loop")
    /\ ~loop_continues(epoch)
    /\ pc' = "predict"
    /\ UNCHANGED <<call, ret, fault, dataVars, netVars, evalVars>>

\* ------------------------------------------------------------------------
\* Evaluation and the arrays of the plot
\* ------------------------------------------------------------------------
\* predictions made while still training: the weights take one more step
\* between the train predictions and the test predictions
Predict_still_training ==
    /\ At("predict")
    /\ trainPredict' = forward(params, trainX)
    /\ params' = adam_update(params, <<graph_of(params, trainX)>>, params.kind)
    /\ testPredict' = forward(params', testX)
    /\ pc' = "invert"
    /\ UNCHANGED <<call, ret, fault, dataVars, grad, optSteps, exp_avg, epoch,
                   graph, prediction, loss, trainY_inv, testY_inv, trainScore, testScore,
                   trainPredictPlot, testPredictPlot, baseline>>

\* with torch.no_grad(): trainPredict = net(trainX); testPredict = net(testX)
Predict ==
    /\ At("predict")
    /\ trainPredict' = forward(params, trainX)
    /\ testPredict' = forward(params, testX)
    /\ pc' = "invert"
    /\ UNCHANGED <<call, ret, fault, dataVars, netVars, trainY_inv, testY_inv,
                   trainScore, testScore, trainPredictPlot, testPredictPlot,
                   baseline>>

\* what MinMaxScaler.inverse_transform refuses: an infinite entry (one that
\* is not a number is let through)
has_inf(X) == \E k \in 1..Len(X) : np_isinf(X[k])

\* what mean_squared_error accepts: finite entries only
all_finite(X) == \A k \in 1..Len(X) : kind_of(X[k]) = "finite"

\* the four scaler.inverse_transform calls; the scaler rejects infinite
\* predictions, and the first call that does ends the run
Invert ==
    /\ At("invert")
    /\ IF has_inf(trainPredict) \/ has_inf(testPredict)
       THEN /\ fault' = "ValueError"
            /\ trainPredict' = IF has_inf(trainPredict) THEN trainPredict
                               ELSE inverse_transform(scaler, trainPredict)
            /\ trainY_inv' = IF has_inf(trainPredict) THEN trainY_inv
                             ELSE inverse_transform(scaler, trainY)
            /\ UNCHANGED <<pc, testPredict, testY_inv>>
       ELSE /\ trainPredict' = inverse_transform(scaler, trainPredict)
            /\ trainY_inv' = inverse_transform(scaler, trainY)
            /\ testPredict' = inverse_transform(scaler, testPredict)
            /\ testY_inv' = inverse_transform(scaler, testY)
            /\ pc' = "score"
            /\ UNCHANGED fault
    /\ UNCHANGED <<call, ret, dataVars, netVars, trainScore, testScore,
                   trainPredictPlot, testPredictPlot, baseline>>

\* an error measured against zero instead of against the labels
mean_squared_error_of_zero(y_true, y_pred) ==
    RDiv(sse(y_pred, [k \in 1..Len(y_pred) |-> RZero]), <<Len(y_true), 1>>)

\* mean_squared_error(y_true, y_pred) of two non-empty columns
mean_squared_error(y_true, y_pred) == RDiv(sse(y_pred, y_true), <<Len(y_true), 1>>)

\* math.sqrt, kept exact: the root of q is the record [sqrt_of |-> q]
math_sqrt(q) == [sqrt_of |-> q]

\* a run that ends with the scores and draws nothing
Score_then_end ==
    /\ At("score")
    /\ IF all_finite(trainPredict) /\ all_finite(testPredict)
       THEN /\ trainScore' = math_sqrt(mean_squared_error(trainY_inv, trainPredict))
            /\ testScore' = math_sqrt(mean_squared_error(testY_inv, testPredict))
            /\ pc' = "done"
            /\ UNCHANGED fault
       ELSE /\ fault' = "ValueError"
            /\ trainScore' = IF all_finite(trainPredict)
                             THEN math_sqrt(mean_squared_error(trainY_inv,
                                                               trainPredict))
                             ELSE trainScore
            /\ UNCHANGED <<pc, testScore>>
    /\ UNCHANGED <<call, ret, dataVars, netVars, trainPredict,
                   testPredict, trainY_inv, testY_inv, trainPredictPlot,
                   testPredictPlot, baseline>>

\* the two scores; mean_squared_error rejects predictions that are not
\* finite, and the first call that does ends the run
Score ==
    /\ At("score")
    /\ IF all_finite(trainPredict) /\ all_finite(testPredict)
       THEN /\ trainScore' = math_sqrt(mean_squared_error(trainY_inv, trainPredict))
            /\ testScore' = math_sqrt(mean_squared_error(testY_inv, testPredict))
            /\ pc' = "plot_train"
            /\ UNCHANGED fault
       ELSE /\ fault' = "ValueError"
            /\ trainScore' = IF all_finite(trainPredict)
                             THEN math_sqrt(mean_squared_error(trainY_inv,
                                                               trainPredict))
                             ELSE trainScore
            /\ UNCHANGED <<pc, testScore>>
    /\ UNCHANGED <<call, ret, dataVars, netVars, trainPredict,
                   testPredict, trainY_inv, testY_inv, trainPredictPlot,
                   testPredictPlot, baseline>>

\* the evaluation of the train predictions on its own: the labels are the
\* normalised column, the network outputs are drawn from the normalised counts
CallScore ==
    /\ call.fn = "score" /\ ret.stage = "transformed"
    /\ LET out == scaler_transform(ret.scaler, call.pred)
           trainPredict_inv == inverse_transform(ret.scaler, out)
           labels_inv == inverse_transform(ret.scaler, ret.scaled)
       IN  ret' = [ret EXCEPT
                     !.stage = "scored",
                     !.predicted = out,
                     !.inverted = labels_inv,
                     !.score = math_sqrt(mean_squared_error(labels_inv,
                                                            trainPredict_inv))]
    /\ UNCHANGED <<call, pc, fault, dataVars, netVars, evalVars>>

NaN == <<0, 0>>

\* np.empty_like(dataset) filled with np.nan
nan_like(ds) == [i \in 1..Len(ds) |-> NaN]

\* the positions arr[a:b] of an array of n rows, 0 <= a, 0 <= b
slice_indices(n, a, b) == {i \in 0..(n - 1) : a <= i /\ i < b}

\* arr[a:b, :] = v needs as many rows as v has, or a single row to repeat
slice_fits(n, a, b, v) == Cardinality(slice_indices(n, a, b)) = Len(v) \/ Len(v) = 1

slice_assign(arr, a, b, v) ==
    [i \in 1..Len(arr) |->
        IF (i - 1) \in slice_indices(Len(arr), a, b)
        THEN IF Len(v) = 1 THEN v[1] ELSE v[i - a]
        ELSE arr[i]]

\* a train slice that starts at the last element of the window
train_plot_slice_window_end(nTrain, L) == <<L - 1, nTrain + L - 1>>

\* [look_back : len(trainPredict)+look_back]
train_plot_slice(nTrain, L) == <<L, nTrain + L>>

\* a test slice of the right length that is not shifted past the train part
test_plot_slice_unshifted(nTrain, L, n) == <<L, (n - 1) - (nTrain + L + 1)>>

\* [len(trainPredict)+(look_back*2)+1 : len(dataset)-1]
test_plot_slice(nTrain, L, n) == <<nTrain + (L * 2) + 1, n - 1>>

PlotTrain ==
    /\ At("plot_train")
    /\ LET sl == train_plot_slice(Len(trainPredict), look_back)
       IN  IF slice_fits(Len(dataset), sl[1], sl[2], trainPredict)
           THEN /\ trainPredictPlot' =
                       slice_assign(nan_like(dataset), sl[1], sl[2], trainPredict)
                /\ pc' = "plot_test"
                /\ UNCHANGED fault
           ELSE /\ trainPredictPlot' = nan_like(dataset)
                /\ fault' = "ValueError"
                /\ UNCHANGED pc
    /\ UNCHANGED <<call, ret, dataVars, netVars, trainPredict, testPredict,
                   trainY_inv, testY_inv, trainScore, testScore,
                   testPredictPlot, baseline>>

PlotTest ==
    /\ At("plot_test")
    /\ LET sl == test_plot_slice(Len(trainPredict), look_back, Len(dataset))
       IN  IF slice_fits(Len(dataset), sl[1], sl[2], testPredict)
           THEN /\ testPredictPlot' =
                       slice_assign(nan_like(dataset), sl[1], sl[2], testPredict)
                /\ pc' = "plot_baseline"
                /\ UNCHANGED fault
           ELSE /\ testPredictPlot' = nan_like(dataset)
                /\ fault' = "ValueError"
                /\ UNCHANGED pc
    /\ UNCHANGED <<call, ret, dataVars, netVars, trainPredict, testPredict,
                   trainY_inv, testY_inv, trainScore, testScore,
                   trainPredictPlot, baseline>>

\* plt.plot(scaler.inverse_transform(dataset)); plt.plot(...); plt.show()
PlotBaseline ==
    /\ At("plot_baseline")
    /\ baseline' = inverse_transform(scaler, dataset)
    /\ pc' = "done"
    /\ UNCHANGED <<call, ret, fault, dataVars, netVars, trainPredict,
                   testPredict, trainY_inv, testY_inv, trainScore, testScore,
                   trainPredictPlot, testPredictPlot>>

\* the weights a completed training leaves, giving outputs of kind k
trained_params(nPairs, k) ==
    [updates |-> NumEpochs,
     from |-> <<[updates |-> NumEpochs - 1, pairs |-> nPairs]>>,
     kind |-> k]

\* normalisation, split, windows, reshapes, the displayed sample
\* trainX[15, 0, :], predictions of trained weights, inverse transforms,
\* scores and the two plot arrays, applied in the order of the cells to a
\* series on its own for any look_back: the statements of the run without
\* the training loop
CallPlot ==
    /\ call.fn = "plot" /\ ret.stage = None
    /\ \E k \in Kinds :
          LET L == call.look_back
              sc == scaler_fit(astype_float(call.data))
              ds == scaler_transform(sc, astype_float(call.data))
              ts == split_point(Len(ds))
              tr == create_dataset(train_partition(ds, ts), L)
              te == create_dataset(test_partition(ds, ts), L)
              p == trained_params(Len(tr[1]), k)
              trP == forward(p, tr[1])
              teP == forward(p, te[1])
              trI == inverse_transform(sc, trP)
              teI == inverse_transform(sc, teP)
              slTrain == train_plot_slice(Len(trI), L)
              slTest == test_plot_slice(Len(trI), L, Len(ds))
              windowed == Len(np_shape(tr[1], L)) >= 2 /\ Len(np_shape(te[1], L)) >= 2
              inspected == windowed /\ InspectIndex < Len(tr[1])
              inverted == inspected /\ ~has_inf(trP) /\ ~has_inf(teP)
              scored == inverted /\ all_finite(trI) /\ all_finite(teI)
              fitsTrain == scored /\ slice_fits(Len(ds), slTrain[1], slTrain[2], trI)
              fitsTest == fitsTrain /\ slice_fits(Len(ds), slTest[1], slTest[2], teI)
          IN  ret' = [ret EXCEPT
                        !.stage = IF ~inspected THEN "IndexError"
                                  ELSE IF ~fitsTest THEN "ValueError"
                                  ELSE "plotted",
                        !.kind = k,
                        !.scaler = sc, !.scaled = ds,
                        !.train_size = ts,
                        !.dataX = tr[1], !.dataY = tr[2],
                        !.testX = te[1], !.testY = te[2],
                        !.trainPredict = IF inverted THEN trI
                                         ELSE IF inspected THEN trP ELSE <<>>,
                        !.testPredict = IF inverted THEN teI
                                        ELSE IF inspected THEN teP ELSE <<>>,
                        !.trainPredictPlot =
                            IF fitsTrain
                            THEN slice_assign(nan_like(ds), slTrain[1], slTrain[2], trI)
                            ELSE IF scored THEN nan_like(ds) ELSE <<>>,
                        !.testPredictPlot =
                            IF fitsTest
                            THEN slice_assign(nan_like(ds), slTest[1], slTest[2], teI)
                            ELSE IF fitsTrain THEN nan_like(ds) ELSE <<>>]
    /\ UNCHANGED <<call, pc, fault, dataVars, netVars, evalVars>>

FnNext ==
    \/ CallCreateDataset
    \/ CallFitTransform
    \/ CallInverseTransform
    \/ CallPrepare
    \/ CallScore
    \/ CallPlot

SpecFn == FnInit /\ [][FnNext]_vars

Next ==
    \/ Load \/ Normalize \/ Split \/ Window \/ ReshapeTrain \/ ReshapeTest
    \/ Inspect \/ ToTensor \/ MakeNet \/ MakeOpt
    \/ Forward \/ Loss \/ Backward \/ Step \/ ZeroGrad \/ ExitLoop
    \/ Predict \/ Invert \/ Score \/ PlotTrain \/ PlotTest \/ PlotBaseline

Spec == Init /\ [][Next]_vars

\* the same run on the rising series of at most MaxLiveN values; the interpreter
\* keeps executing the next statement until the run ends or faults
LiveNext ==
    \/ LoadLive \/ Normalize \/ Split \/ Window \/ ReshapeTrain \/ ReshapeTest
    \/ Inspect \/ ToTensor \/ MakeNet \/ MakeOpt
    \/ Forward \/ Loss \/ Backward \/ Step \/ ZeroGrad \/ ExitLoop
    \/ Predict \/ Invert \/ Score \/ PlotTrain \/ PlotTest \/ PlotBaseline

Statements ==
    {"load", "normalize", "split", "window", "reshape_train", "reshape_test",
     "inspect", "to_tensor", "make_net", "make_opt",
     "loop", "loss", "backward", "step", "zero_grad",
     "predict", "invert", "score", "plot_train", "plot_test", "plot_baseline",
     "done"}

Outcomes == {None, "ValueError", "IndexError"}

\* a run that has neither ended nor raised has a next statement to execute
Running == fault = None /\ pc # "done"

\* the interpreter executes the statement it is at: the run moves to another
\* statement or raises
Executes == Running /\ \E l \in Statements, f \in Outcomes : pc' = l /\ fault' = f

\* every statement of the run moves it on or raises, and a run that can
\* execute a statement has one enabled, so fairness of Executes is fairness
\* of LiveNext
RunningCanStep == Running => ENABLED <<LiveNext>>_vars

StepsMove == [][Running /\ (pc' # pc \/ fault' # fault)]_vars

LiveSpec == Init /\ [][LiveNext]_vars /\ WF_<<pc, fault>>(Executes)

\* ------------------------------------------------------------------------
\* Properties of create_dataset and of the scaler (under SpecFn)
\* ------------------------------------------------------------------------
Returned == call.fn = "create_dataset" /\ ret.stage = "returned"

Distinct(s) == \A i, j \in 1..Len(s) : s[i] = s[j] => i = j

\* the elements that occur in some window or as some label of the result
Used ==
    {ret.dataX[k][j] : k \in 1..Len(ret.dataX), j \in 1..call.look_back}
        \cup {ret.dataY[k] : k \in 1..Len(ret.dataY)}

\* C1: create_dataset(series, L) returns exactly max(0, N-L-1) pairs, none
\* when N <= L+1, and as many windows as labels.
C1_PairCount ==
    Returned =>
        /\ Len(ret.dataX) = MaxOf(0, Len(call.data) - call.look_back - 1)
        /\ Len(ret.dataX) = Len(ret.dataY)
        /\ (Len(call.data) <= call.look_back + 1 => ret.dataX = <<>> /\ ret.dataY = <<>>)

C1_Witness ==
    /\ Returned
    /\ Len(call.data) = call.look_back + 3
    /\ Len(ret.dataX) = 2 /\ Len(ret.dataY) = 2

\* C2: pair i (counted from 0, in order of emission) has the window
\* S[i], ..., S[i+L-1] and the label S[i+L].
C2_WindowAndLabel ==
    Returned =>
        \A k \in 1..Len(ret.dataX) :
            /\ Len(ret.dataX[k]) = call.look_back
            /\ \A j \in 1..call.look_back : ret.dataX[k][j] = call.data[k + j - 1]
            /\ k <= Len(ret.dataY) /\ ret.dataY[k] = call.data[k + call.look_back]

C2_Witness ==
    /\ Returned
    /\ call.data = Ramp(6) /\ call.look_back = 2
    /\ ret.dataX[3] = <<3, 4>> /\ ret.dataY[3] = 5

TenSeries == call.data = Ramp(10) /\ call.look_back = 3

\* C3 as stated: the series 1..10 with window length 3 gives 7 pairs, the
\* last one ([7,8,9],10).
C3_SevenPairs ==
    (Returned /\ TenSeries) =>
        /\ ret.dataX = << <<1,2,3>>, <<2,3,4>>, <<3,4,5>>, <<4,5,6>>,
                          <<5,6,7>>, <<6,7,8>>, <<7,8,9>> >>
        /\ ret.dataY = <<4, 5, 6, 7, 8, 9, 10>>

\* C3 (amended): the series 1..10 with window length 3 gives the 6 pairs
\* ([1,2,3],4) ... ([6,7,8],9); the last label is 9 and 10 is never used.
C3_SixPairs ==
    (Returned /\ TenSeries) =>
        /\ ret.dataX = << <<1,2,3>>, <<2,3,4>>, <<3,4,5>>, <<4,5,6>>,
                          <<5,6,7>>, <<6,7,8>> >>
        /\ ret.dataY = <<4, 5, 6, 7, 8, 9>>

C3_Witness == Returned /\ TenSeries /\ Len(ret.dataX) = 6 /\ ret.dataY[6] = 9

LongEnough == Len(call.data) > call.look_back + 1

\* C4 as stated: for N > L+1 none of the final L+1 elements S[N-L-1..N-1]
\* occurs in a window or as a label (series of pairwise distinct elements).
C4_LastElementsUnused ==
    (Returned /\ LongEnough /\ Distinct(call.data)) =>
        \A j \in (Len(call.data) - call.look_back)..Len(call.data) :
            call.data[j] \notin Used

\* C4 (amended): for N > L+1 only the final element S[N-1] occurs in no
\* window and as no label; every other element, S[N-L-1..N-2] included,
\* occurs, S[N-2] as the last label; the result has L+1 fewer pairs than the
\* series has elements.
C4_OnlyLastUnused ==
    (Returned /\ LongEnough /\ Distinct(call.data)) =>
        /\ call.data[Len(call.data)] \notin Used
        /\ \A j \in 1..(Len(call.data) - 1) : call.data[j] \in Used
        /\ ret.dataY[Len(ret.dataY)] = call.data[Len(call.data) - 1]
        /\ Len(ret.dataX) = Len(call.data) - (call.look_back + 1)

C4_Witness ==
    /\ Returned /\ call.data = Ramp(7) /\ call.look_back = 2
    /\ 7 \notin Used /\ 6 \in Used /\ 5 \in Used

Inverted == call.fn = "scaler" /\ ret.stage = "inverted"

\* C9: with max > min, every x of the fit range is normalised to
\* (x - min) / (max - min) and inverting that with the same scaler gives x
\* back; with min = 100 and max = 700, 112 becomes 1/50 and 1/50 becomes 112.
C9_RoundTrip ==
    (Inverted /\ RLess(ret.scaler.data_min, ret.scaler.data_max)) =>
        \A i \in 1..Len(call.data) :
            LET x == call.data[i][1]
                lo == ret.scaler.data_min[1]
                hi == ret.scaler.data_max[1]
            IN  /\ ret.scaled[i] = R(x - lo, hi - lo)
                /\ ret.inverted[i] = <<x, 1>>
                /\ (lo = 100 /\ hi = 700 /\ x = 112) => ret.scaled[i] = <<1, 50>>

C9_Witness ==
    /\ Inverted
    /\ call.data = <<<<100, 1>>, <<112, 1>>, <<700, 1>>>>
    /\ ret.scaled[2] = <<1, 50>>
    /\ ret.inverted[2] = <<112, 1>>

\* ------------------------------------------------------------------------
\* Properties of a run of the notebook (under Spec and LiveSpec)
\* ------------------------------------------------------------------------
Windowed == pc \notin {"harness", "load", "normalize", "split", "window"}

\* the elements of all windows and all labels of a partition
Elements(X, Y) ==
    {X[k][j] : k \in 1..Len(X), j \in 1..look_back} \cup {Y[k] : k \in 1..Len(Y)}

\* C5: every train window and train label lies at full-series indices below
\* train_size, every test window and test label at indices from train_size
\* on; with pairwise distinct values no train pair holds a value of the test
\* partition and no test pair a value of the train partition (looked at when
\* the pairs have just been built and again at the end of the run).
C5_NoWindowCrossesSplit ==
    Windowed =>
        /\ \A k \in 1..Len(trainX) :
              /\ \A j \in 1..look_back :
                    /\ (k - 1) + (j - 1) < train_size
                    /\ trainX[k][j] = dataset[k + j - 1]
              /\ (k - 1) + look_back < train_size
              /\ trainY[k] = dataset[k + look_back]
        /\ \A k \in 1..Len(testX) :
              /\ \A j \in 1..look_back :
                    /\ train_size + (k - 1) + (j - 1) < Len(dataset)
                    /\ testX[k][j] = dataset[train_size + k + j - 1]
              /\ train_size + (k - 1) + look_back < Len(dataset)
              /\ testY[k] = dataset[train_size + k + look_back]
        /\ (pc \in {"reshape_train", "done"} /\ Distinct(dataset)) =>
              /\ \A i \in (train_size + 1)..Len(dataset) :
                    dataset[i] \notin Elements(trainX, trainY)
              /\ \A i \in 1..train_size :
                    dataset[i] \notin Elements(testX, testY)

C5_Witness ==
    /\ pc = "reshape_train"
    /\ Distinct(dataset)
    /\ Len(trainX) >= 2 /\ Len(testX) >= 2
    /\ trainY[Len(trainY)] = dataset[train_size - 1]
    /\ testX[1][1] = dataset[train_size + 1]

Reshaped == pc \notin {"harness", "load", "normalize", "split", "window",
                       "reshape_train", "reshape_test"}

\* C6: a partition of length <= look_back+1 gives no pairs and the reshape of
\* its empty array raises: the run stops there, nothing runs after a fault,
\* and every later statement sees non-empty train and test windows.
C6_EmptyDatasetFaults ==
    /\ [](Reshaped => (trainX # <<>> /\ testX # <<>>))
    /\ []((Windowed /\ Len(train) <= look_back + 1) => trainX = <<>>)
    /\ []((Windowed /\ Len(test) <= look_back + 1) => testX = <<>>)
    /\ [][(At("reshape_train") /\ Len(train) <= look_back + 1)
              => (fault' = "IndexError" /\ pc' = pc)]_vars
    /\ [][(At("reshape_test") /\ Len(test) <= look_back + 1)
              => (fault' = "IndexError" /\ pc' = pc)]_vars
    /\ [][fault = None]_vars

C6_Witness ==
    /\ pc = "reshape_test" /\ fault = "IndexError"
    /\ trainX # <<>> /\ testX = <<>>
    /\ Len(test) = look_back + 1

InLoop == pc \in {"loop", "loss", "backward", "step", "zero_grad"}

\* C7: the training loop is left after exactly 5000 iterations and never
\* otherwise: it is left when and only when the counter has reached 5000,
\* whatever the loss -- finite, infinite or not a number --, no statement of
\* the loop faults, an iteration begun on a loss that is not finite is
\* carried on like any other, and a loop that has started is eventually left.
C7_FixedIterationBudget ==
    /\ [][(InLoop /\ ~InLoop') => (pc = "loop" /\ epoch = 5000 /\ optSteps = 5000
                                      /\ pc' = "predict")]_vars
    /\ [][(At("loop") /\ epoch = 5000) => pc' = "predict"]_vars
    /\ [][(At("loop") /\ epoch < 5000) => (pc' = "loss" /\ epoch' = epoch)]_vars
    /\ [][(InLoop /\ pc # "loop") => (InLoop' /\ fault' = None)]_vars
    /\ [](InLoop => (fault = None /\ epoch <= 5000))
    /\ ((pc = "loop" /\ epoch = 0) ~> (pc = "predict" /\ epoch = 5000))

C7_Witness ==
    /\ pc = "predict" /\ epoch = 5000 /\ optSteps = 5000
    /\ np_isnan(loss)
    /\ params.updates = 5000 /\ params.kind = "nan"

Plotted == pc \in {"plot_baseline", "done"}

\* the positions (from 1) of a plot array that hold a number
Filled(plot) == {i \in 1..Len(plot) : ~np_isnan(plot[i])}

\* the output of the net that a prediction is, or was before it was taken
\* back to the scale of the file
net_of(x) == IF x[1] = "net" THEN x ELSE x[2][2]

PlotCall == call.fn = "plot" /\ ret.stage # None

CallPlotted == PlotCall /\ ret.stage = "plotted"

\* C8: for every look_back L and series length N for which both partitions
\* yield pairs, each target slice has exactly as many positions as the
\* partition has pairs, and so as it has predictions, so neither slice
\* assignment faults: the plot arrays are built in every run that gets to
\* the predictions (one with the 16 train windows the displayed sample needs)
\* and whose predictions are finite (others are refused by the inverse
\* transform or the metric before the plot); train prediction k is written
\* at plot index k+L and nowhere else, test prediction k at plot index
\* train_size+k+L and nowhere else, each index being the full-series index
\* of the label the prediction estimates.
C8_PlotOffsets ==
    (PlotCall /\ ret.dataX # <<>> /\ ret.testX # <<>>) =>
        LET L == call.look_back
            N == Len(call.data)
            ts == ret.train_size
            nTrain == Len(ret.dataX)
            nTest == Len(ret.testX)
            slTrain == slice_indices(N, L, nTrain + L)
            slTest == slice_indices(N, nTrain + (L * 2) + 1, N - 1)
        IN  /\ Cardinality(slTrain) = nTrain
            /\ Cardinality(slTest) = nTest
            /\ slTrain = {k + L : k \in 0..(nTrain - 1)}
            /\ slTest = {ts + k + L : k \in 0..(nTest - 1)}
            /\ \A k \in 0..(nTrain - 1) : ret.dataY[k + 1] = ret.scaled[(k + L) + 1]
            /\ \A k \in 0..(nTest - 1) : ret.testY[k + 1] = ret.scaled[(ts + k + L) + 1]
            /\ (ret.stage = "plotted") = (nTrain > InspectIndex /\ ret.kind = "finite")
            /\ nTrain <= InspectIndex =>
                  /\ ret.stage = "IndexError"
                  /\ ret.trainPredict = <<>> /\ ret.testPredict = <<>>
            /\ ret.stage # "plotted" =>
                  /\ ret.stage \in {"IndexError", "ValueError"}
                  /\ ret.trainPredictPlot = <<>> /\ ret.testPredictPlot = <<>>
            /\ nTrain > InspectIndex =>
                  /\ Len(ret.trainPredict) = nTrain
                  /\ Len(ret.testPredict) = nTest
            /\ ret.stage = "plotted" =>
                  /\ Len(ret.trainPredictPlot) = N /\ Len(ret.testPredictPlot) = N
                  /\ \A k \in 0..(Len(ret.trainPredict) - 1) :
                        /\ ret.trainPredictPlot[(k + L) + 1] = ret.trainPredict[k + 1]
                        /\ \A i \in 0..(N - 1) :
                              ret.trainPredictPlot[i + 1] = ret.trainPredict[k + 1]
                                  => i = k + L
                        /\ net_of(ret.trainPredict[k + 1])[3] = ret.dataX[k + 1]
                  /\ \A k \in 0..(Len(ret.testPredict) - 1) :
                        /\ ret.testPredictPlot[(ts + k + L) + 1] = ret.testPredict[k + 1]
                        /\ \A i \in 0..(N - 1) :
                              ret.testPredictPlot[i + 1] = ret.testPredict[k + 1]
                                  => i = ts + k + L
                        /\ net_of(ret.testPredict[k + 1])[3] = ret.testX[k + 1]
                  /\ Cardinality(Filled(ret.trainPredictPlot)) = Len(ret.trainPredict)
                  /\ Cardinality(Filled(ret.testPredictPlot)) = Len(ret.testPredict)

C8_Witness ==
    /\ CallPlotted
    /\ call.look_back = 3 /\ Len(call.data) = 30
    /\ ret.train_size = 20
    /\ Len(ret.trainPredict) = 16 /\ Len(ret.testPredict) = 6
    /\ ret.trainPredict[1] # ret.trainPredict[2]
    /\ ret.trainPredictPlot[3] = NaN
    /\ ret.trainPredictPlot[4] = ret.trainPredict[1]
    /\ ret.trainPredictPlot[19] = ret.trainPredict[16]
    /\ ret.trainPredictPlot[20] = NaN
    /\ ret.testPredictPlot[23] = NaN
    /\ ret.testPredictPlot[24] = ret.testPredict[1]
    /\ ret.testPredictPlot[29] = ret.testPredict[6]
    /\ ret.testPredictPlot[30] = NaN

RawLo == RMinSeq(astype_float(dataframe))

RawHi == RMaxSeq(astype_float(dataframe))

RawRange == IF RawHi = RawLo THEN ROne ELSE RSub(RawHi, RawLo)

Norm(x) == RDiv(RSub(x, RawLo), RawRange)

\* a normalised value, or the output of the net for one, taken back to the
\* scale of the file with the minimum and the maximum of the whole file
Denorm(y) ==
    IF IsNum(y)
    THEN RAdd(RMul(y, RawRange), RawLo)
    ELSE <<"div", <<"sub", y, RSub(RZero, RDiv(RawLo, RawRange))>>,
           RDiv(ROne, RawRange)>>

DenormAll(Y) == [i \in 1..Len(Y) |-> Denorm(Y[i])]

\* C10: the scaler is fit once, at the normalising statement, on the whole
\* series, before the split, and never changes afterwards; both partitions
\* hold values normalised with the minimum and maximum of the whole series
\* and every inverse transform (train and test predictions and labels, the
\* plotted baseline) uses that same minimum and maximum.
C10_ScalerFitOnce ==
    /\ [][scaler' # scaler => (At("normalize") /\ scaler = Unfitted /\ scaler'.fitted)]_vars
    /\ [](scaler.fitted => (scaler.data_min = RawLo /\ scaler.data_max = RawHi))
    /\ []((pc \notin {"harness", "load", "normalize"}) => scaler.fitted)
    /\ [][(train' # train \/ test' # test) => At("split")]_vars
    /\ [](pc = "window" =>
             /\ Len(train) = train_size /\ Len(test) = Len(dataframe) - train_size
             /\ \A i \in 1..Len(train) : train[i] = Norm(<<dataframe[i], 1>>)
             /\ \A i \in 1..Len(test) : test[i] = Norm(<<dataframe[train_size + i], 1>>))
    /\ [][(At("invert") /\ fault' = None) =>
             /\ trainPredict' = DenormAll(trainPredict)
             /\ trainY_inv' = DenormAll(trainY)
             /\ testPredict' = DenormAll(testPredict)
             /\ testY_inv' = DenormAll(testY)]_vars
    /\ [][At("plot_baseline") =>
             (baseline' = DenormAll(dataset) /\ baseline' = astype_float(dataframe))]_vars

C10_Witness ==
    /\ pc = "done"
    /\ scaler.fitted /\ scaler.data_min = <<1, 1>> /\ scaler.data_max = <<33, 1>>
    /\ Len(dataframe) = 33
    /\ train[1] = <<0, 1>> /\ train[2] = <<1, 32>> /\ test[1] = <<11, 16>>
    /\ baseline = astype_float(dataframe)
    /\ trainY_inv[1] = <<6, 1>>
    /\ testY_inv[1] = <<28, 1>> /\ testY_inv[5] = <<32, 1>>
    /\ trainPredict[1] =
           <<"div", <<"sub", net_output(params, trainX[1]), <<-1, 32>>>>, <<1, 32>>>>
    /\ trainPredict[1] # trainPredict[2]

\* ------------------------------------------------------------------------
\* The split and the windowing of both partitions (SpecFn)
\* ------------------------------------------------------------------------
Prepared == call.fn = "prepare" /\ ret.stage # None

PreparedNotebookCase ==
    Prepared /\ Len(call.data) = SeriesLength /\ call.look_back = NotebookLookBack

\* the 144-value series with look_back 5: 90 train windows of shape (5,1),
\* 90 train labels and 42 test windows
C11_NotebookShapes ==
    PreparedNotebookCase =>
        /\ ret.stage = "prepared"
        /\ ret.shapeX = <<90, 5, 1>>
        /\ Len(ret.dataX) = 90 /\ Len(ret.dataY) = 90
        /\ ret.shapeTestX = <<42, 5, 1>>
        /\ Len(ret.testX) = 42 /\ Len(ret.testY) = 42

\* C11 as stated: the train partition of a series of length N, split at
\* train_size = floor(0.67*N), yields exactly train_size-L-1 windows of length
\* L with as many labels, and the test partition exactly N-train_size-L-1;
\* for 144 values and L=5 that is 90 train windows of shape (5,1), 90 train
\* labels and 42 test windows
C11_ExactCounts ==
    /\ Prepared =>
          LET N == Len(call.data)
              L == call.look_back
              ts == (N * 67) \div 100
          IN  /\ ret.train_size = ts
              /\ Len(ret.dataX) = ts - L - 1
              /\ Len(ret.dataY) = ts - L - 1
              /\ Len(ret.testX) = N - ts - L - 1
              /\ Len(ret.testY) = N - ts - L - 1
              /\ \A k \in 1..Len(ret.dataX) : Len(ret.dataX[k]) = L
              /\ \A k \in 1..Len(ret.testX) : Len(ret.testX[k]) = L
    /\ C11_NotebookShapes

\* C11, amended: the train partition yields max(0, train_size-L-1) windows of
\* length L with as many labels and the test partition max(0, N-train_size-L-1),
\* where train_size = floor(0.67*N); when both counts are positive the reshaped
\* arrays have the shapes (count, L, 1); for 144 values and L=5 that is 90
\* train windows of shape (5,1), 90 train labels and 42 test windows
C11_ClampedCounts ==
    /\ Prepared =>
          LET N == Len(call.data)
              L == call.look_back
              ts == (N * 67) \div 100
              nTrain == MaxOf(0, ts - L - 1)
              nTest == MaxOf(0, N - ts - L - 1)
          IN  /\ ret.train_size = ts
              /\ Len(ret.dataX) = nTrain /\ Len(ret.dataY) = nTrain
              /\ Len(ret.testX) = nTest /\ Len(ret.testY) = nTest
              /\ \A k \in 1..Len(ret.dataX) : Len(ret.dataX[k]) = L
              /\ \A k \in 1..Len(ret.testX) : Len(ret.testX[k]) = L
              /\ (nTrain > 0 /\ nTest > 0) =>
                    /\ ret.stage = "prepared"
                    /\ ret.shapeX = <<nTrain, L, 1>>
                    /\ ret.shapeTestX = <<nTest, L, 1>>
    /\ C11_NotebookShapes

C11_Witness ==
    /\ PreparedNotebookCase
    /\ ret.train_size = 96
    /\ Len(ret.dataX) = 90 /\ Len(ret.testX) = 42
    /\ ret.shapeX[2] = 5 /\ ret.shapeX[3] = 1

\* ------------------------------------------------------------------------
\* The train score (SpecFn)
\* ------------------------------------------------------------------------
Scored == call.fn = "score" /\ ret.stage = "scored"

\* C12: when every train prediction equals its train label, the train RMSE
\* computed after the inverse transformation of both is 0
C12_PerfectFitScoresZero ==
    (Scored /\ \A k \in 1..Len(ret.scaled) : ret.predicted[k] = ret.scaled[k]) =>
        ret.score = [sqrt_of |-> <<0, 1>>]

C12_Witness ==
    /\ Scored
    /\ call.data = <<<<100, 1>>, <<112, 1>>, <<700, 1>>>>
    /\ ret.predicted = <<<<0, 1>>, <<1, 50>>, <<1, 1>>>>
    /\ ret.predicted = ret.scaled
    /\ ret.score = [sqrt_of |-> <<0, 1>>]

\* ------------------------------------------------------------------------
\* The training loop and what follows it (Spec)
\* ------------------------------------------------------------------------
\* how many terms a sum is made of
RECURSIVE NumTerms(_)
NumTerms(x) ==
    IF IsNum(x) THEN 0
    ELSE IF x[1] = "add" THEN NumTerms(x[2]) + 1
    ELSE 1

\* the terms a sum is made of
RECURSIVE Terms(_)
Terms(x) ==
    IF IsNum(x) THEN {}
    ELSE IF x[1] = "add" THEN Terms(x[2]) \cup {x[3]}
    ELSE {x}

\* the terms of the loss that are the squared difference of an output of
\* the weights p and a label
SquaredErrors(p) ==
    {t \in Terms(loss) :
        /\ t[1] = "mul" /\ t[2] = t[3]
        /\ t[2][1] = "sub" /\ t[2][2][1] = "net" /\ t[2][2][2] = p}

\* the (window, label) pairs a set of squared errors is about
PairsOf(terms) == {<<t[2][2][3], t[2][3]>> : t \in terms}

TrainingPairs == {<<trainX[k], trainY[k]>> : k \in 1..Len(trainX)}

\* C13: an iteration is the forward pass over the whole training set, the
\* sum-of-squared-errors loss, the backward pass, one optimizer step and the
\* clearing of the gradients, each exactly once and in that order; after k
\* completed iterations exactly k optimizer steps have been taken, each from
\* a loss that is the sum of one squared error for every training pair,
\* under the weights of that iteration.
C13_OneStepPerIteration ==
    /\ [][At("loop") /\ InLoop' =>
             /\ pc' = "loss"
             /\ DOMAIN prediction' = DOMAIN trainX
             /\ UNCHANGED <<params, optSteps, epoch, grad>>]_vars
    /\ [][At("loss") =>
             /\ pc' = "backward"
             /\ UNCHANGED <<params, optSteps, epoch, grad, prediction>>]_vars
    /\ [][At("backward") =>
             /\ pc' = "step"
             /\ UNCHANGED <<params, optSteps, epoch, prediction, loss>>]_vars
    /\ [][At("step") =>
             /\ pc' = "zero_grad"
             /\ optSteps' = optSteps + 1
             /\ params'.updates = params.updates + 1
             /\ params'.from = <<[updates |-> epoch, pairs |-> Len(trainX)]>>
             /\ UNCHANGED <<epoch, grad, prediction, loss>>]_vars
    /\ [][At("zero_grad") =>
             /\ pc' = "loop"
             /\ epoch' = epoch + 1
             /\ grad' = NoGrad
             /\ UNCHANGED <<params, optSteps>>]_vars
    /\ [][optSteps' # optSteps => (At("step") \/ At("make_opt"))]_vars
    /\ [][params' # params => (At("step") \/ At("make_net"))]_vars
    /\ [](InLoop => params.updates = optSteps)
    /\ [](pc \in {"loop", "loss", "backward", "step"} => optSteps = epoch)
    /\ [](pc = "zero_grad" => optSteps = epoch + 1)
    /\ [](pc \in {"loss", "backward", "step", "zero_grad"} =>
             DOMAIN prediction = DOMAIN trainX)
    /\ [](pc \in {"backward", "step"} =>
             /\ Terms(loss) = SquaredErrors(params)
             /\ PairsOf(Terms(loss)) = TrainingPairs
             /\ NumTerms(loss) = Len(trainX))

C13_Witness ==
    /\ pc = "loop" /\ fault = None
    /\ epoch = 3 /\ optSteps = 3
    /\ params.updates = 3
    /\ params.from = <<[updates |-> 2, pairs |-> 16]>>
    /\ Len(prediction) = Len(trainX) /\ Len(trainX) = 16
    /\ prediction[1] # prediction[2]
    /\ NumTerms(loss) = 16
    /\ Cardinality(Terms(loss)) = 16
    /\ Cardinality(TrainingPairs) = 16

Evaluating ==
    pc \in {"predict", "invert", "score", "plot_train", "plot_test",
            "plot_baseline", "done"}

Predicted == pc \in {"invert", "score", "plot_train", "plot_test", "plot_baseline",
                     "done"}

\* C14: evaluation starts only after the last training iteration, nothing
\* after the loop changes the weights (or the optimizer's state), and every
\* train and every test prediction is, from the moment it is made to the end
\* of the run, the output on its own window of the weights the loop ended
\* with, which have had exactly 5000 updates.
C14_WeightsFrozenForEvaluation ==
    /\ [][(~Evaluating /\ Evaluating') =>
             (pc = "loop" /\ epoch = NumEpochs /\ pc' = "predict")]_vars
    /\ [][Evaluating => UNCHANGED <<params, grad, optSteps, exp_avg, epoch>>]_vars
    /\ [][(trainPredict' # trainPredict \/ testPredict' # testPredict) =>
             (At("predict") \/ At("invert"))]_vars
    /\ [](Evaluating => (params.updates = NumEpochs /\ optSteps = NumEpochs))
    /\ [](Predicted =>
             /\ Len(trainPredict) = Len(trainX) /\ Len(testPredict) = Len(testX)
             /\ \A k \in 1..Len(trainPredict) :
                   /\ net_of(trainPredict[k])[2] = params
                   /\ net_of(trainPredict[k])[3] = trainX[k]
             /\ \A k \in 1..Len(testPredict) :
                   /\ net_of(testPredict[k])[2] = params
                   /\ net_of(testPredict[k])[3] = testX[k])

C14_Witness ==
    /\ pc = "done" /\ fault = None
    /\ epoch = NumEpochs
    /\ params.updates = NumEpochs
    /\ Len(trainPredict) = 16 /\ Len(testPredict) = 5
    /\ net_of(trainPredict[16])[2].updates = NumEpochs
    /\ net_of(testPredict[5])[2].updates = NumEpochs
    /\ net_of(testPredict[5])[3] = testX[5]
    /\ testX[5] # trainX[5]

\* ------------------------------------------------------------------------
\* The order of the stages (Spec)
\* ------------------------------------------------------------------------
\* the statements of the notebook in the order of its cells
PcOrder ==
    <<"load", "normalize", "split", "window", "reshape_train", "reshape_test",
      "inspect", "to_tensor", "make_net", "make_opt",
      "loop", "loss", "backward", "step", "zero_grad",
      "predict", "invert", "score", "plot_train", "plot_test", "plot_baseline",
      "done">>

PcRank(p) == CHOOSE i \in 1..Len(PcOrder) : PcOrder[i] = p

\* the stage a statement belongs to
StageOf(p) ==
    CASE p = "load" -> "loader"
      [] p = "normalize" -> "normalizer"
      [] p = "split" -> "split"
      [] p \in {"window", "reshape_train", "reshape_test", "inspect"} -> "windower"
      [] p \in {"to_tensor", "make_net", "make_opt", "loop", "loss", "backward",
                "step", "zero_grad"} -> "training"
      [] p = "predict" -> "inference"
      [] p = "invert" -> "inverse-transform"
      [] p = "score" -> "metric"
      [] p \in {"plot_train", "plot_test", "plot_baseline"} -> "plot"
      [] p = "done" -> "end"

StagePosition(order, stage) == CHOOSE i \in 1..Len(order) : order[i] = stage

\* the order the claim gives: the windower before the split
ClaimedStageOrder ==
    <<"loader", "normalizer", "windower", "split", "training", "inference",
      "inverse-transform", "metric", "plot", "end">>

\* the order of the cells: the split before the windower
CellStageOrder ==
    <<"loader", "normalizer", "split", "windower", "training", "inference",
      "inverse-transform", "metric", "plot", "end">>

\* C15 as stated: the stages execute exactly once each, without branching or
\* repetition other than the training iterations, in the order loader,
\* normalizer, windower, (train split, test split), model training, model
\* inference, inverse-transform, metric, plot -- no step of a run goes from a
\* stage to an earlier one of that list or skips one, and no step ends the run
\* with stages still to execute.
C15_ClaimedOrder ==
    /\ [][LET a == StagePosition(ClaimedStageOrder, StageOf(pc))
              b == StagePosition(ClaimedStageOrder, StageOf(pc'))
          IN  b = a \/ b = a + 1]_vars
    /\ [][fault' = None]_vars

\* C15, amended: the stages execute at most once each, and exactly once each
\* in a run that no exception ends, without branching or repetition other
\* than the training iterations, in the order loader, normalizer, (train
\* split, test split), windower, model training, model inference,
\* inverse-transform, metric, plot.  Every step either raises the exception
\* that ends the run or moves to the statement that follows in the cells, the
\* only step back being the one from the end of a training iteration to the
\* head of the loop; so a run that arrives at the end has executed every
\* statement outside the loop exactly once.
C15_CellOrder ==
    /\ [][/\ fault = None
          /\ IF fault' # None
             THEN pc' = pc
             ELSE \/ PcRank(pc') = PcRank(pc) + 1 /\ ~(pc = "zero_grad")
                  \/ pc = "zero_grad" /\ pc' = "loop"
                  \/ pc = "loop" /\ pc' = "predict"]_vars
    /\ [][LET a == StagePosition(CellStageOrder, StageOf(pc))
              b == StagePosition(CellStageOrder, StageOf(pc'))
          IN  b = a \/ b = a + 1]_vars
    /\ [][StageOf(pc') = StageOf(pc) =>
             (StageOf(pc) \in {"windower", "training", "plot"}
                 \/ fault' # None)]_vars
    /\ [](pc = "done" => fault = None)

C15_Witness ==
    /\ pc = "done" /\ fault = None
    /\ epoch = NumEpochs /\ optSteps = NumEpochs
    /\ Len(trainX) >= 16 /\ Len(testX) > 0
    /\ trainScore = math_sqrt(mean_squared_error(trainY_inv, trainPredict))
    /\ Len(baseline) = Len(dataset)
    /\ Filled(trainPredictPlot) # {} /\ Filled(testPredictPlot) # {}

\* ------------------------------------------------------------------------
\* What the training loop touches (Spec)
\* ------------------------------------------------------------------------
\* C16: a training iteration changes the weights and the optimizer's state
\* (and the loop's own prediction, loss and counter) and nothing else: train
\* and test windows and labels, the normalized series and the scaler are,
\* from the moment the windowed datasets are derived, through the tensor
\* conversion and after every iteration, what they were then.
C16_TrainingTouchesOnlyWeights ==
    /\ [][InLoop => UNCHANGED <<dataVars, evalVars>>]_vars
    /\ [][Windowed =>
             UNCHANGED <<trainX, trainY, testX, testY, dataset, scaler, train,
                         test, look_back>>]_vars
    /\ [][At("zero_grad") =>
             /\ trainY' = [k \in 1..Len(trainX') |-> dataset'[k + look_back']]
             /\ testY' = [k \in 1..Len(testX') |->
                             dataset'[train_size' + k + look_back']]]_vars

C16_Witness ==
    /\ pc = "loop" /\ fault = None
    /\ epoch = 2 /\ params.updates = 2
    /\ exp_avg.steps = 2
    /\ dataset[1] # dataset[2]
    /\ scaler.fitted
    /\ Len(trainY) >= 16
    /\ trainY[1] = dataset[look_back + 1]
    /\ trainX[1][1] = dataset[1]

\* C17: the accumulated gradient is zero at the head of every iteration
\* (before the first one and after each clearing) and until the backward
\* pass, so the gradient the optimizer steps on is that of the current
\* iteration's loss alone, never a sum over iterations: it has one summand,
\* the derivative of the loss that the weights about to be updated have on
\* all training pairs, and so had the gradient of every update made so far.
C17_GradientsClearedEachIteration ==
    /\ pc \in {"make_opt", "loop", "loss", "backward"} => grad = NoGrad
    /\ (pc = "step" /\ fault = None) =>
          /\ Len(grad) = 1
          /\ grad[1].updates = epoch /\ grad[1].pairs = Len(trainX)
          /\ params.updates = epoch
          /\ Terms(loss) = SquaredErrors(params)
          /\ PairsOf(Terms(loss)) = TrainingPairs
          /\ NumTerms(loss) = grad[1].pairs
    /\ (InLoop /\ params.updates > 0) =>
          /\ Len(params.from) = 1
          /\ params.from[1].updates = params.updates - 1
          /\ params.from[1].pairs = Len(trainX)
          /\ exp_avg.last = params.from /\ exp_avg.steps = params.updates

C17_Witness ==
    /\ pc = "step" /\ fault = None
    /\ epoch = 2 /\ optSteps = 2
    /\ grad = <<[updates |-> 2, pairs |-> 16]>>
    /\ params.from = <<[updates |-> 1, pairs |-> 16]>>
    /\ NumTerms(loss) = 16
    /\ Cardinality(Terms(loss)) = 16

\* ------------------------------------------------------------------------
\* The split (Spec)
\* ------------------------------------------------------------------------
SplitDone == pc \notin {"harness", "load", "normalize", "split"}

\* C18: the split partitions the normalized series of length N: train is
\* its first floor(0.67*N) elements, test the elements from there to the end,
\* each in series order; the two sizes add up to N and every series index is
\* in exactly one of the two.
C18_SplitPartitionsSeries ==
    SplitDone =>
        LET N == Len(dataset)
        IN  /\ train_size = (67 * N) \div 100
            /\ 100 * train_size <= 67 * N /\ 67 * N < 100 * (train_size + 1)
            /\ train_size + test_size = N
            /\ Len(train) = train_size /\ Len(test) = test_size
            /\ \A i \in 1..train_size : train[i] = dataset[i]
            /\ \A i \in 1..test_size : test[i] = dataset[train_size + i]
            /\ train \o test = dataset
            /\ \A i \in 1..N :
                  (i \in DOMAIN train) # (i - train_size \in DOMAIN test)

C18_Witness ==
    /\ pc = "window" /\ fault = None
    /\ Len(dataset) = 32 /\ Distinct(dataset)
    /\ train_size = 21 /\ test_size = 11
    /\ train[21] = dataset[21]
    /\ test[1] = dataset[22] /\ test[11] = dataset[32]

\* ------------------------------------------------------------------------
\* Which elements are labels (SpecFn)
\* ------------------------------------------------------------------------
\* the pairs (counted from 0) whose label is the element S[j]
PairsLabelled(j) == {k \in 0..(Len(ret.dataY) - 1) : ret.dataY[k + 1] = call.data[j + 1]}

\* the pairs (counted from 0) whose window holds the element S[j]
PairsHolding(j) ==
    {k \in 0..(Len(ret.dataX) - 1) :
        \E i \in 1..Len(ret.dataX[k + 1]) : ret.dataX[k + 1][i] = call.data[j + 1]}

\* C19: for a series S of N > L+1 (pairwise distinct) elements, S[j] with
\* L <= j <= N-2 is the label of pair j-L and of no other pair, S[N-1] is in
\* no window and is no label, S[N-2] is a label and in no window, and
\* S[0..L-1] are labels of no pair.
C19_LabelIndices ==
    (Returned /\ LongEnough /\ Distinct(call.data)) =>
        LET N == Len(call.data)
            L == call.look_back
        IN  /\ \A j \in L..(N - 2) : PairsLabelled(j) = {j - L}
            /\ PairsLabelled(N - 1) = {} /\ PairsHolding(N - 1) = {}
            /\ PairsLabelled(N - 2) # {} /\ PairsHolding(N - 2) = {}
            /\ \A j \in 0..(L - 1) : PairsLabelled(j) = {}

C19_Witness ==
    /\ Returned /\ call.data = Ramp(8) /\ call.look_back = 3
    /\ ret.dataY = <<4, 5, 6, 7>>
    /\ PairsLabelled(6) = {3} /\ PairsHolding(6) = {}
    /\ PairsLabelled(7) = {} /\ PairsHolding(7) = {}
    /\ PairsHolding(5) = {3}

\* ------------------------------------------------------------------------
\* The two plot arrays (Spec)
\* ------------------------------------------------------------------------
\* the full-series indices (from 0) at which a plot array holds a number
FilledFromZero(plot) == {i - 1 : i \in Filled(plot)}

\* C20: for every look_back and series length for which the plot arrays are
\* built (runs with at least 16 train windows, test pairs and finite
\* predictions), the indices filled with train predictions and those filled with
\* test predictions are two disjoint ranges inside 0..N-1, the train range
\* from L and the test range ending before N-1; each array is NaN
\* everywhere outside its own range, so no index of the series carries both a
\* train and a test prediction.
C20_PlotRangesDisjoint ==
    CallPlotted =>
        LET N == Len(call.data)
            L == call.look_back
            trainRange == {i \in 0..(N - 1) :
                              L <= i /\ i < L + Len(ret.trainPredict)}
            testRange == {i \in 0..(N - 1) :
                             /\ Len(ret.trainPredict) + (2 * L) + 1 <= i
                             /\ i < N - 1}
        IN  /\ FilledFromZero(ret.trainPredictPlot) = trainRange
            /\ FilledFromZero(ret.testPredictPlot) = testRange
            /\ Cardinality(trainRange) = Len(ret.trainPredict)
            /\ Cardinality(testRange) = Len(ret.testPredict)
            /\ trainRange \cap testRange = {}
            /\ \A i \in (0..(N - 1)) \ trainRange : ret.trainPredictPlot[i + 1] = NaN
            /\ \A i \in (0..(N - 1)) \ testRange : ret.testPredictPlot[i + 1] = NaN
            /\ \A i \in trainRange : kind_of(ret.trainPredictPlot[i + 1]) = "finite"
            /\ \A i \in testRange : kind_of(ret.testPredictPlot[i + 1]) = "finite"
            /\ \A i \in 0..(N - 1) :
                  ret.trainPredictPlot[i + 1] = NaN \/ ret.testPredictPlot[i + 1] = NaN
            /\ \A a \in trainRange, b \in testRange : a < b
            /\ trainRange \subseteq 0..(ret.train_size - 1)
            /\ testRange \subseteq ret.train_size..(N - 1)

C20_Witness ==
    /\ CallPlotted
    /\ call.look_back = 5 /\ Len(call.data) = SeriesLength
    /\ FilledFromZero(ret.trainPredictPlot) = 5..94
    /\ FilledFromZero(ret.testPredictPlot) = 101..142
    /\ ret.trainPredictPlot[5] = NaN /\ ret.trainPredictPlot[96] = NaN
    /\ ret.testPredictPlot[101] = NaN /\ ret.testPredictPlot[144] = NaN
====
